---- MODULE Spec2Model ----
(***************************************************************************)
(* Model of the LMS content API (src/main.py, src/schemas.py).             *)
(*                                                                         *)
(* The collections of the document store are sequences of documents in     *)
(* insertion order; a document is a function from field names to values.   *)
(* Every call the handlers make on the store (find_one, update_one,        *)
(* create_document, find) is one atomic step; the enroll and submit        *)
(* handlers, which make several calls, are modelled call by call so that   *)
(* request tasks interleave between their store calls (FastAPI runs the    *)
(* synchronous handlers on a thread pool).                                 *)
(***************************************************************************)
EXTENDS Integers, Sequences, FiniteSets, TLC

VARIABLES
    course,      \* db["course"]
    lesson,      \* db["lesson"]
    assignment,  \* db["assignment"]
    enrollment,  \* db["enrollment"]
    submission,  \* db["submission"]
    nextOid,     \* value of the next ObjectId the store generates
    pc,          \* per request task: the handler position
    req,         \* per request task: the parsed request model
    loc,         \* per request task: the handler's local variables
    ret,         \* per request task: the response of its last finished call
    hist,        \* serial service: the finished calls, in order of completion
    serial,      \* TRUE when requests are served one at a time
    resp         \* response of the most recent catalog handler

vars == <<course, lesson, assignment, enrollment, submission, nextOid,
          pc, req, loc, ret, hist, serial, resp>>

storeVars == <<course, lesson, assignment, enrollment, submission, nextOid>>
taskVars == <<pc, req, loc, ret, hist, serial>>

----------------------------------------------------------------------------
(* Bounds of the model *)

NumTasks == 2
MaxDocs == 2

\* the requests, numbered in their order of arrival
Tasks == 1..NumTasks

----------------------------------------------------------------------------
(* Values *)

\* Python's None, for the Optional[str] fields
None == "<None>"

CourseIds == {"c1"}
UserIds == {"u1", "u2"}
AssignmentIds == {"a1"}
Roles == {"student", "ta"}
Contents == {"v1", "v2"}

----------------------------------------------------------------------------
(* ObjectId: a 12-byte value, written as 24 hexadecimal digits *)

OidHexLen == 24
FirstOid == 10

HexLower == <<"0", "1", "2", "3", "4", "5", "6", "7", "8", "9",
              "a", "b", "c", "d", "e", "f">>
HexUpper == <<"0", "1", "2", "3", "4", "5", "6", "7", "8", "9",
              "A", "B", "C", "D", "E", "F">>

IsHexChar(c) == \E i \in 1..16 : HexLower[i] = c \/ HexUpper[i] = c

HexVal(c) == (CHOOSE i \in 1..16 : HexLower[i] = c \/ HexUpper[i] = c) - 1

\* str(ObjectId): 24 lower-case hexadecimal digits, most significant first
RECURSIVE HexDigitsOf(_, _)
HexDigitsOf(n, len) ==
    IF len = 0 THEN <<>>
    ELSE Append(HexDigitsOf(n \div 16, len - 1), HexLower[(n % 16) + 1])

OidStr(n) == HexDigitsOf(n, OidHexLen)

\* bson.ObjectId(str) accepts exactly the strings of 24 hexadecimal digits
OidValid(s) == Len(s) = OidHexLen /\ \A i \in 1..Len(s) : IsHexChar(s[i])

RECURSIVE HexValue(_)
HexValue(s) ==
    IF s = <<>> THEN 0
    ELSE 16 * HexValue(SubSeq(s, 1, Len(s) - 1)) + HexVal(s[Len(s)])

\* ObjectId(id_str) of a valid string
ObjectId(s) == HexValue(s)

\* oid: the ObjectId of a string, or HTTP 400
oid(id_str) ==
    IF OidValid(id_str) THEN [ok |-> TRUE, value |-> ObjectId(id_str)]
    ELSE [ok |-> FALSE, status |-> 400]

----------------------------------------------------------------------------
(* Documents and the store's operations *)

\* index of the first document of coll that has doc[k] = filt[k] for every
\* key of the filter, 0 when there is none (find_one)
FindOne(coll, filt) ==
    IF \E i \in 1..Len(coll) :
           \A k \in DOMAIN filt : k \in DOMAIN coll[i] /\ coll[i][k] = filt[k]
    THEN CHOOSE i \in 1..Len(coll) :
           /\ \A k \in DOMAIN filt : k \in DOMAIN coll[i] /\ coll[i][k] = filt[k]
           /\ \A j \in 1..(i - 1) :
                 ~(\A k \in DOMAIN filt : k \in DOMAIN coll[j] /\ coll[j][k] = filt[k])
    ELSE 0

\* {"$set": data} applied to a document: the fields of data overwrite or
\* extend the document, every other field stays
SetFields(doc, data) ==
    [k \in (DOMAIN doc) \cup (DOMAIN data) |->
        IF k \in DOMAIN data THEN data[k] ELSE doc[k]]

\* serialize: None stays None; _id becomes the string field id
NullView == [null |-> TRUE]

serialize(doc) ==
    IF "_id" \in DOMAIN doc
    THEN [k \in ((DOMAIN doc) \ {"_id"}) \cup {"id"} |->
             IF k = "id" THEN OidStr(doc["_id"]) ELSE doc[k]]
    ELSE doc

SerializeAt(coll, i) == IF i = 0 THEN NullView ELSE serialize(coll[i])

----------------------------------------------------------------------------
(* Schema registry (src/schemas.py) and the create path *)

Kinds == {"course", "lesson", "enrollment", "assignment", "submission"}

\* the fields declared with Field(...), i.e. required
Required(kind) ==
    CASE kind = "course" -> {"title", "description", "instructor_id"}
      [] kind = "lesson" -> {"course_id", "title"}
      [] kind = "enrollment" -> {"course_id", "user_id"}
      [] kind = "assignment" -> {"course_id", "title"}
      [] kind = "submission" -> {"assignment_id", "user_id"}

\* the declared defaults of the other fields
Defaults(kind) ==
    CASE kind = "course" -> [tags |-> <<>>, cover_image |-> None, level |-> None]
      [] kind = "lesson" -> [content |-> None, video_url |-> None, order |-> 1]
      [] kind = "enrollment" -> [role |-> "student"]
      [] kind = "assignment" ->
             [description |-> None, due_date |-> None, max_points |-> 100]
      [] kind = "submission" ->
             [content |-> None, grade |-> None, feedback |-> None]

\* the integer fields declared with ge=1.  (Submission.grade, ge=0, is an
\* Optional field that no handler of main.py sets: it is None throughout.)
LowerBound(kind) ==
    CASE kind = "lesson" -> [order |-> 1]
      [] kind = "assignment" -> [max_points |-> 1]
      [] OTHER -> [k \in {} |-> 0]

RequiredOk(kind, data) == Required(kind) \subseteq DOMAIN data

LowerBoundsOkNone(kind, data) == TRUE

LowerBoundsOk(kind, data) ==
    \A f \in DOMAIN LowerBound(kind) :
        f \in DOMAIN data => data[f] >= LowerBound(kind)[f]

\* encode: defaults for the omitted optional fields, then the checks
Encode(kind, data) ==
    IF RequiredOk(kind, data) /\ LowerBoundsOk(kind, data)
    THEN [ok |-> TRUE, doc |-> SetFields(Defaults(kind), data)]
    ELSE [ok |-> FALSE]

\* database.create_document(kind, data): encode, give the document a fresh
\* ObjectId, insert it, return the id as a string
CreateDocument(coll, kind, data, id) ==
    LET e == Encode(kind, data)
    IN IF e.ok
       THEN [ok |-> TRUE,
             coll |-> Append(coll, SetFields(e.doc, [_id |-> id])),
             id |-> OidStr(id)]
       ELSE [ok |-> FALSE, coll |-> coll]

\* a request model of main.py applied to a JSON body: HTTP 422 when a
\* required field is missing, else model_dump() with the defaults filled in
ParseModel(required, defaults, body) ==
    IF required \subseteq DOMAIN body
    THEN [ok |-> TRUE, data |-> SetFields(defaults, body)]
    ELSE [ok |-> FALSE, status |-> 422]

Restrict(f, keys) == [k \in keys |-> f[k]]

----------------------------------------------------------------------------
(* Request tasks: the enroll and submit handlers, one store call per step *)

NoResp == [status |-> 0]
NoLoc == [found |-> FALSE]
NoReq == [op |-> "none"]

Waiting(t) == pc[t] = "idle"
Done(t) == pc[t] = "done"

\* request t arrives: the requests before it have arrived and, when requests
\* are served one at a time, have been answered
CanBegin(t) ==
    /\ Waiting(t)
    /\ \A u \in 1..(t - 1) : ~Waiting(u)
    /\ serial => \A u \in 1..(t - 1) : Done(u)

\* the handler returns: the response is recorded
Return(t, r, view, found) ==
    /\ pc' = [pc EXCEPT ![t] = "done"]
    /\ ret' = [ret EXCEPT ![t] = [status |-> 200, body |-> view]]
    /\ hist' = IF serial
               THEN Append(hist, [req |-> r, found |-> found,
                                  ret |-> [status |-> 200, body |-> view]])
               ELSE hist

EnrollmentIn(c, u, r) == [course_id |-> c, user_id |-> u, role |-> r]

EnrollFilter(e) == [course_id |-> e.course_id, user_id |-> e.user_id]

\* what enroll writes when the enrollment exists already: nothing
EnrollExistingApplyRole(coll, i, e) == [coll EXCEPT ![i]["role"] = e.role]

EnrollExisting(coll, i, e) == coll

\* enroll, lines 155-157: look the pair up; return the existing record
EnrollFind(t, c, u, r) ==
    LET e == EnrollmentIn(c, u, r)
        i == FindOne(enrollment, EnrollFilter(e))
        q == [op |-> "enroll", data |-> e]
    IN /\ CanBegin(t)
       /\ req' = [req EXCEPT ![t] = q]
       /\ IF i # 0
          THEN /\ enrollment' = EnrollExisting(enrollment, i, e)
               /\ Return(t, q, SerializeAt(enrollment', i), TRUE)
               /\ loc' = loc
          ELSE /\ pc' = [pc EXCEPT ![t] = "enroll_create"]
               /\ ret' = [ret EXCEPT ![t] = NoResp]
               /\ loc' = [loc EXCEPT ![t] = NoLoc]
               /\ UNCHANGED <<enrollment, hist>>
       /\ UNCHANGED <<course, lesson, assignment, submission, nextOid,
                      serial, resp>>

\* enroll, line 158: create_document("enrollment", enr.model_dump())
EnrollCreate(t) ==
    LET c == CreateDocument(enrollment, "enrollment", req[t].data, nextOid)
    IN /\ pc[t] = "enroll_create"
       /\ c.ok
       /\ enrollment' = c.coll
       /\ nextOid' = nextOid + 1
       /\ loc' = [loc EXCEPT ![t] = [found |-> FALSE, id |-> c.id]]
       /\ pc' = [pc EXCEPT ![t] = "enroll_read"]
       /\ UNCHANGED <<course, lesson, assignment, submission,
                      req, ret, hist, serial, resp>>

\* enroll, lines 159-160: read the new record back and return it
EnrollRead(t) ==
    /\ pc[t] = "enroll_read"
    /\ Return(t, req[t],
              SerializeAt(enrollment,
                          FindOne(enrollment, [_id |-> ObjectId(loc[t].id)])),
              FALSE)
    /\ UNCHANGED <<storeVars, req, loc, serial, resp>>

SubmissionIn(a, u, c) == [assignment_id |-> a, user_id |-> u, content |-> c]

SubmitFilter(d) == [assignment_id |-> d.assignment_id, user_id |-> d.user_id]

\* line 190, "if existing"
SubmitFoundNever(i) == FALSE

SubmitFound(i) == i # 0

\* submit, lines 188-190: look the pair up
SubmitFind(t, a, u, c) ==
    LET d == SubmissionIn(a, u, c)
        i == FindOne(submission, SubmitFilter(d))
    IN /\ CanBegin(t)
       /\ req' = [req EXCEPT ![t] = [op |-> "submit", data |-> d]]
       /\ ret' = [ret EXCEPT ![t] = NoResp]
       /\ IF SubmitFound(i)
          THEN /\ loc' = [loc EXCEPT ![t] =
                             [found |-> TRUE, oid |-> submission[i]["_id"]]]
               /\ pc' = [pc EXCEPT ![t] = "submit_update"]
          ELSE /\ loc' = [loc EXCEPT ![t] = NoLoc]
               /\ pc' = [pc EXCEPT ![t] = "submit_create"]
       /\ UNCHANGED <<storeVars, hist, serial, resp>>

\* the update document of line 191
SubmitReplace(doc, data) == SetFields([_id |-> doc["_id"]], data)

SubmitSet(doc, data) == SetFields(doc, data)

\* submit, line 191: update_one({"_id": existing["_id"]}, {"$set": {**data}})
SubmitUpdate(t) ==
    LET i == FindOne(submission, [_id |-> loc[t].oid])
    IN /\ pc[t] = "submit_update"
       /\ submission' =
             IF i = 0 THEN submission
             ELSE [submission EXCEPT ![i] = SubmitSet(submission[i], req[t].data)]
       /\ pc' = [pc EXCEPT ![t] = "submit_reread"]
       /\ UNCHANGED <<course, lesson, assignment, enrollment, nextOid,
                      req, loc, ret, hist, serial, resp>>

\* submit, lines 192-193: read the record again and return it
SubmitReread(t) ==
    /\ pc[t] = "submit_reread"
    /\ Return(t, req[t],
              SerializeAt(submission, FindOne(submission, [_id |-> loc[t].oid])),
              TRUE)
    /\ UNCHANGED <<storeVars, req, loc, serial, resp>>

\* submit, line 194: create_document("submission", data)
SubmitCreate(t) ==
    LET c == CreateDocument(submission, "submission", req[t].data, nextOid)
    IN /\ pc[t] = "submit_create"
       /\ c.ok
       /\ submission' = c.coll
       /\ nextOid' = nextOid + 1
       /\ loc' = [loc EXCEPT ![t] = [found |-> FALSE, id |-> c.id]]
       /\ pc' = [pc EXCEPT ![t] = "submit_read"]
       /\ UNCHANGED <<course, lesson, assignment, enrollment,
                      req, ret, hist, serial, resp>>

\* submit, lines 195-196: read the new record back and return it
SubmitRead(t) ==
    /\ pc[t] = "submit_read"
    /\ Return(t, req[t],
              SerializeAt(submission,
                          FindOne(submission, [_id |-> ObjectId(loc[t].id)])),
              FALSE)
    /\ UNCHANGED <<storeVars, req, loc, serial, resp>>

----------------------------------------------------------------------------
(* Catalog handlers.  Each makes its store calls on documents that no      *)
(* handler updates or deletes, and is modelled as one step.                *)

\* create_course / create_lesson / create_assignment: the request model,
\* create_document, find_one by the new id, serialize
\* (CourseIn, LessonIn and AssignmentIn declare the required fields and the
\* defaults of Course, Lesson and Assignment, without the ge=1 bounds)
CreateHandler(coll, kind, body, id) ==
    LET p == ParseModel(Required(kind), Defaults(kind), body)
        c == CreateDocument(coll, kind, p.data, id)
    IN IF ~p.ok
       THEN [coll |-> coll, status |-> 422, created |-> FALSE]
       ELSE IF ~c.ok
       THEN [coll |-> coll, status |-> 400, created |-> FALSE]
       ELSE [coll |-> c.coll, status |-> 200, created |-> TRUE,
             body |-> SerializeAt(c.coll,
                                  FindOne(c.coll, [_id |-> ObjectId(c.id)]))]

CreateResponse(op, body, h) ==
    IF h.created
    THEN [op |-> op, request |-> body, status |-> h.status, body |-> h.body]
    ELSE [op |-> op, request |-> body, status |-> h.status]

\* the request models of main.py declare no bound on order and max_points:
\* LessonIn.order and AssignmentIn.max_points are plain int
LessonBodies ==
    { Restrict([course_id |-> "c1", title |-> "t", order |-> o], d) :
        o \in {0 - 1, 0, 1, 2}, d \in SUBSET {"course_id", "title", "order"} }

AssignmentBodies ==
    { Restrict([course_id |-> "c1", title |-> "t", max_points |-> m], d) :
        m \in {0, 1, 100}, d \in SUBSET {"course_id", "title", "max_points"} }

create_lesson(body) ==
    LET h == CreateHandler(lesson, "lesson", body, nextOid)
    IN /\ Len(lesson) < MaxDocs
       /\ lesson' = h.coll
       /\ nextOid' = IF h.created THEN nextOid + 1 ELSE nextOid
       /\ resp' = CreateResponse("create_lesson", body, h)
       /\ UNCHANGED <<course, assignment, enrollment, submission, taskVars>>

create_assignment(body) ==
    LET h == CreateHandler(assignment, "assignment", body, nextOid)
    IN /\ Len(assignment) < MaxDocs
       /\ assignment' = h.coll
       /\ nextOid' = IF h.created THEN nextOid + 1 ELSE nextOid
       /\ resp' = CreateResponse("create_assignment", body, h)
       /\ UNCHANGED <<course, lesson, enrollment, submission, taskVars>>

\* course titles and search strings are sequences of characters
Titles == {<<"a", "b">>, <<"A">>, <<"b">>}
Queries == {<<>>, <<"a">>, <<"B">>, <<"A", "b">>, <<".">>}
TagLists == {<<>>, <<"x">>}
TagInputs == {None, "x"}
LimitInputs == {0, 1, 50}

CourseBodies ==
    { Restrict([title |-> ti, description |-> "d", instructor_id |-> "u1",
                tags |-> tg], d) :
        ti \in Titles, tg \in TagLists,
        d \in { {"title", "description", "instructor_id"},
                {"title", "description", "instructor_id", "tags"},
                {"description", "instructor_id"} } }

create_course(body) ==
    LET h == CreateHandler(course, "course", body, nextOid)
    IN /\ Len(course) < MaxDocs
       /\ course' = h.coll
       /\ nextOid' = IF h.created THEN nextOid + 1 ELSE nextOid
       /\ resp' = CreateResponse("create_course", body, h)
       /\ UNCHANGED <<lesson, assignment, enrollment, submission, taskVars>>

ToLower(c) == IF \E i \in 1..16 : HexUpper[i] = c
              THEN HexLower[CHOOSE i \in 1..16 : HexUpper[i] = c]
              ELSE c

\* {"$regex": q, "$options": "i"}: q is a regular expression, searched for
\* anywhere in the value, letters compared without case.  Of the regular
\* expression syntax the model has the literal characters and ".", which
\* stands for any character.
RegexSearch(q, s) ==
    \E start \in 0..(Len(s) - Len(q)) :
        \A j \in 1..Len(q) :
            q[j] = "." \/ ToLower(q[j]) = ToLower(s[start + j])

\* the filter of list_courses: built from q and tag when they are truthy
CourseMatches(doc, q, tag) ==
    /\ q # <<>> => RegexSearch(q, doc["title"])
    /\ tag # None => \E i \in 1..Len(doc["tags"]) : doc["tags"][i] = tag

\* cursor.limit(n): 0 is no limit, a negative n limits to -n
Limit(docs, n) ==
    IF n = 0 THEN docs
    ELSE LET m == IF n < 0 THEN 0 - n ELSE n
         IN SubSeq(docs, 1, IF m < Len(docs) THEN m ELSE Len(docs))

list_courses(q, tag, limit) ==
    LET Matches(doc) == CourseMatches(doc, q, tag)
        docs == Limit(SelectSeq(course, Matches), limit)
    IN /\ resp' = [op |-> "list_courses", q |-> q, tag |-> tag,
                   limit |-> limit, status |-> 200,
                   body |-> [i \in 1..Len(docs) |-> serialize(docs[i])]]
       /\ UNCHANGED <<storeVars, taskVars>>

\* identifiers a client may send: the ids the store gives out, written in
\* lower or upper case, and strings that are no 24 hexadecimal digits
ToUpper(s) == [i \in 1..Len(s) |->
                 IF \E j \in 1..16 : HexLower[j] = s[i]
                 THEN HexUpper[CHOOSE j \in 1..16 : HexLower[j] = s[i]]
                 ELSE s[i]]

IdInputs ==
    { OidStr(n) : n \in FirstOid..(FirstOid + MaxDocs) }
    \cup { ToUpper(OidStr(n)) : n \in FirstOid..(FirstOid + MaxDocs) }
    \cup { <<>>, <<"a">>, SubSeq(OidStr(FirstOid), 1, OidHexLen - 1),
           Append(OidStr(FirstOid), "0"),
           [OidStr(FirstOid) EXCEPT ![1] = "g"] }

\* the response of get_course; storeCalls counts its calls on the store
get_courseNo404(course_id) ==
    LET o == oid(course_id)
    IN IF ~o.ok
       THEN [op |-> "get_course", id |-> course_id, status |-> o.status,
             storeCalls |-> 0]
       ELSE [op |-> "get_course", id |-> course_id, status |-> 200,
             storeCalls |-> 1,
             body |-> SerializeAt(course, FindOne(course, [_id |-> o.value]))]

get_course(course_id) ==
    LET o == oid(course_id)
        i == FindOne(course, [_id |-> o.value])
    IN IF ~o.ok
       THEN [op |-> "get_course", id |-> course_id, status |-> o.status,
             storeCalls |-> 0]
       ELSE IF i = 0
       THEN [op |-> "get_course", id |-> course_id, status |-> 404,
             storeCalls |-> 1]
       ELSE [op |-> "get_course", id |-> course_id, status |-> 200,
             storeCalls |-> 1, body |-> serialize(course[i])]

GetCourse(course_id) ==
    /\ resp' = get_course(course_id)
    /\ UNCHANGED <<storeVars, taskVars>>

----------------------------------------------------------------------------
(* Specifications *)

NoResponse == [op |-> "none"]

EmptyStore ==
    /\ course = <<>>
    /\ lesson = <<>>
    /\ assignment = <<>>
    /\ enrollment = <<>>
    /\ submission = <<>>
    /\ nextOid = FirstOid

\* the store outlives the process: it may hold what earlier requests, served
\* one after the other, have created
EarlierStore ==
    /\ course = <<>>
    /\ lesson = <<>>
    /\ assignment = <<>>
    /\ enrollment =
          CreateDocument(<<>>, "enrollment",
                         EnrollmentIn("c1", "u2", "ta"), FirstOid).coll
    /\ submission =
          CreateDocument(<<>>, "submission",
                         SubmissionIn("a1", "u2", "v1"), FirstOid + 1).coll
    /\ nextOid = FirstOid + 2

InitStore == EmptyStore \/ EarlierStore

InitTasks ==
    /\ pc = [t \in Tasks |-> "idle"]
    /\ req = [t \in Tasks |-> NoReq]
    /\ loc = [t \in Tasks |-> NoLoc]
    /\ ret = [t \in Tasks |-> NoResp]
    /\ hist = <<>>
    /\ resp = NoResponse

\* concurrent request tasks
Init == InitStore /\ InitTasks /\ serial = FALSE

\* requests served one after the other
InitSeq == InitStore /\ InitTasks /\ serial = TRUE

Next ==
    \/ \E t \in Tasks, c \in CourseIds, u \in UserIds, r \in Roles :
           EnrollFind(t, c, u, r)
    \/ \E t \in Tasks : EnrollCreate(t)
    \/ \E t \in Tasks : EnrollRead(t)
    \/ \E t \in Tasks, a \in AssignmentIds, u \in UserIds, c \in Contents :
           SubmitFind(t, a, u, c)
    \/ \E t \in Tasks : SubmitUpdate(t)
    \/ \E t \in Tasks : SubmitReread(t)
    \/ \E t \in Tasks : SubmitCreate(t)
    \/ \E t \in Tasks : SubmitRead(t)

Spec == Init /\ [][Next]_vars

SpecSeq == InitSeq /\ [][Next]_vars

\* the course handlers
InitCatalog == EmptyStore /\ InitTasks /\ serial = FALSE

NextCourse ==
    \/ \E body \in CourseBodies : create_course(body)
    \/ \E q \in Queries, tag \in TagInputs, limit \in LimitInputs :
           list_courses(q, tag, limit)
    \/ \E id \in IdInputs : GetCourse(id)

SpecCourse == InitCatalog /\ [][NextCourse]_vars

\* the lesson and assignment handlers
NextSchema ==
    \/ \E body \in LessonBodies : create_lesson(body)
    \/ \E body \in AssignmentBodies : create_assignment(body)

SpecSchema == InitCatalog /\ [][NextSchema]_vars

----------------------------------------------------------------------------
(* Properties *)

SamePair(d, e, keys) == \A k \in keys : d[k] = e[k]

EnrollKey == {"course_id", "user_id"}
SubmitKey == {"assignment_id", "user_id"}

Quiet == \A t \in Tasks : Waiting(t) \/ Done(t)

\* C1: the enrollment collection never holds two records with the same
\* (course_id, user_id), however the enroll calls interleave
EnrollmentUniquePerPair ==
    \A i, j \in 1..Len(enrollment) :
        SamePair(enrollment[i], enrollment[j], EnrollKey) => i = j

\* C2: the submission collection never holds two records with the same
\* (assignment_id, user_id), however the submit calls interleave
SubmissionUniquePerPair ==
    \A i, j \in 1..Len(submission) :
        SamePair(submission[i], submission[j], SubmitKey) => i = j

\* C3: any two finished enroll calls with the same (course_id, user_id) have
\* both answered without error, with views that carry the same id
EnrollCallsReturnSameId ==
    \A t, u \in Tasks :
        ( /\ Done(t) /\ Done(u)
          /\ req[t].op = "enroll" /\ req[u].op = "enroll"
          /\ SamePair(req[t].data, req[u].data, EnrollKey) )
        => /\ ret[t].status = 200
           /\ ret[u].status = 200
           /\ ret[t].body["id"] = ret[u].body["id"]

\* C4: requests served one after the other: after a submit call with content
\* c2 that follows a submit call for the same (assignment_id, user_id) with a
\* different content, the store holds exactly one Submission for the pair,
\* with content c2 and with the id the earlier call returned
SequentialResubmitReplaces ==
    \A i, j \in 1..Len(hist) :
        ( /\ Quiet /\ i < j /\ j = Len(hist)
          /\ hist[i].req.op = "submit" /\ hist[j].req.op = "submit"
          /\ SamePair(hist[i].req.data, hist[j].req.data, SubmitKey)
          /\ hist[i].req.data.content # hist[j].req.data.content )
        => /\ Cardinality({k \in 1..Len(submission) :
                 SamePair(submission[k], hist[j].req.data, SubmitKey)}) = 1
           /\ \A k \in 1..Len(submission) :
                 SamePair(submission[k], hist[j].req.data, SubmitKey)
                 => /\ submission[k]["content"] = hist[j].req.data.content
                    /\ OidStr(submission[k]["_id"]) = hist[i].ret.body["id"]

SequentialResubmitDone ==
    \E i, j \in 1..Len(hist) :
        /\ Quiet /\ i < j /\ j = Len(hist)
        /\ hist[i].req.op = "submit" /\ hist[j].req.op = "submit"
        /\ SamePair(hist[i].req.data, hist[j].req.data, SubmitKey)
        /\ hist[i].req.data.content # hist[j].req.data.content
        /\ ~hist[i].found

\* C5: an enroll call for a pair that has a stored Enrollment writes nothing
\* to the store and returns the stored record, with its id and its role, also
\* when the call carries another role
EnrollExistingIsNoOp ==
    [][ \A t \in Tasks :
          ( /\ Waiting(t) /\ ~Waiting(t)'
            /\ req'[t].op = "enroll"
            /\ FindOne(enrollment, EnrollFilter(req'[t].data)) # 0 )
          => LET i == FindOne(enrollment, EnrollFilter(req'[t].data))
             IN /\ storeVars' = storeVars
                /\ Done(t)'
                /\ ret'[t].status = 200
                /\ ret'[t].body["id"] = OidStr(enrollment[i]["_id"])
                /\ ret'[t].body["role"] = enrollment[i]["role"]
                /\ ret'[t].body = serialize(enrollment[i]) ]_vars

EnrollOtherRoleAnswered ==
    \E t \in Tasks :
        /\ Done(t) /\ req[t].op = "enroll"
        /\ ret[t].body["role"] # req[t].data.role
        /\ \E i \in 1..Len(enrollment) :
              /\ SamePair(enrollment[i], req[t].data, EnrollKey)
              /\ enrollment[i]["role"] = ret[t].body["role"]

\* C6: a submit call that finds a stored Submission for its pair changes that
\* record's content and nothing else: the record keeps its fields and its
\* other values (id, assignment_id, user_id, grade, feedback), no record is
\* added and every other record of the store stays as it is
SubmitExistingChangesOnlyContent ==
    [][ \A t \in Tasks :
          /\ ( Waiting(t) /\ pc'[t] = "submit_update" )
             => storeVars' = storeVars
          /\ ( pc[t] = "submit_reread" /\ Done(t)' )
             => storeVars' = storeVars
          /\ ( pc[t] = "submit_update" /\ pc'[t] = "submit_reread" )
             => /\ UNCHANGED <<course, lesson, assignment, enrollment, nextOid>>
                /\ Len(submission') = Len(submission)
                /\ \E i \in 1..Len(submission) :
                      submission[i]["_id"] = loc[t].oid
                /\ \A i \in 1..Len(submission) :
                      IF submission[i]["_id"] = loc[t].oid
                      THEN /\ DOMAIN submission'[i] = DOMAIN submission[i]
                           /\ {"grade", "feedback"} \subseteq DOMAIN submission[i]
                           /\ \A k \in (DOMAIN submission[i]) \ {"content"} :
                                 submission'[i][k] = submission[i][k]
                           /\ submission'[i]["content"] = req[t].data.content
                      ELSE submission'[i] = submission[i] ]_vars

SubmitExistingAnswered ==
    \E t \in Tasks :
        /\ Done(t) /\ req[t].op = "submit" /\ loc[t].found
        /\ req[t].data.content = "v2"
        /\ ret[t].body["content"] = "v2"
        /\ Len(submission) >= 2
        /\ Len(enrollment) >= 1

LessonRequestValid(b) ==
    /\ {"course_id", "title"} \subseteq DOMAIN b
    /\ "order" \in DOMAIN b => b["order"] >= 1

AssignmentRequestValid(b) ==
    /\ {"course_id", "title"} \subseteq DOMAIN b
    /\ "max_points" \in DOMAIN b => b["max_points"] >= 1

Contains(s, q) ==
    \E start \in 0..(Len(s) - Len(q)) :
        \A j \in 1..Len(q) : ToLower(q[j]) = ToLower(s[start + j])

\* C8: the course listing returns only courses whose title contains q,
\* letters compared without case, and never more records than limit
ListingFilteredAndCapped ==
    resp.op = "list_courses"
    => /\ \A i \in 1..Len(resp.body) :
             \E k \in 1..Len(course) :
                 /\ resp.body[i] = serialize(course[k])
                 /\ Contains(course[k]["title"], resp.q)
       /\ Len(resp.body) <= resp.limit

HexChars == {"0", "1", "2", "3", "4", "5", "6", "7", "8", "9",
             "a", "b", "c", "d", "e", "f", "A", "B", "C", "D", "E", "F"}

WellFormedToken(s) == Len(s) = 24 /\ \A i \in 1..Len(s) : s[i] \in HexChars

ToLower24(s) == [i \in 1..Len(s) |-> ToLower(s[i])]

\* C9: get by id: an identifier that is no well-formed token is answered 400
\* without a call on the store; a well-formed one that names no stored course
\* is answered 404; one that names a stored course is answered with that
\* course's view, whose id names the same course; the store is unchanged
GetByIdContract ==
    [][ resp'.op = "get_course"
        => /\ storeVars' = storeVars
           /\ IF ~WellFormedToken(resp'.id)
              THEN resp'.status = 400 /\ resp'.storeCalls = 0
              ELSE IF \A k \in 1..Len(course) :
                         OidStr(course[k]["_id"]) # ToLower24(resp'.id)
              THEN resp'.status = 404
              ELSE /\ resp'.status = 200
                   /\ resp'.body["id"] = ToLower24(resp'.id)
                   /\ \E k \in 1..Len(course) :
                         resp'.body = serialize(course[k]) ]_vars

GetByUpperCaseIdAnswered ==
    /\ resp.op = "get_course"
    /\ resp.status = 200
    /\ resp.id # resp.body["id"]
    /\ Len(course) >= 2

\* C10: a submit call that found a stored Submission returns a view whose
\* content is the content this call submitted
SubmitReturnsOwnContent ==
    \A t \in Tasks :
        ( Done(t) /\ req[t].op = "submit" /\ loc[t].found )
        => ret[t].body["content"] = req[t].data.content

====
